---- MODULE Spec2Model ----
(***************************************************************************)
(* Model of ConnectionManager (src/src/ConnectionManager.js): the queue    *)
(* `context.list`, the helpers next / requestFreeSlot / openConnection /   *)
(* update / push, the public schedule(), the completion handler and the    *)
(* deferred close tasks created with setTimeout(..., 0).                   *)
(*                                                                         *)
(* Connections are external objects with state INIT -> OPEN -> CLOSED.     *)
(* open() moves INIT to OPEN before it returns (next() and push() read the *)
(* state right after the call).  close() on an OPEN connection either      *)
(* delivers the completion notification before it returns (sync = TRUE,    *)
(* as an aborted XHR does) or leaves the connection OPEN until a later     *)
(* Complete step (sync = FALSE); both are possible and chosen per call.    *)
(*                                                                         *)
(* threshold = 0.7 is kept as the fraction ThresholdNum / ThresholdDen and *)
(* a comparison x < p * threshold is computed as                           *)
(* x * ThresholdDen < p * ThresholdNum; for the priorities used here the   *)
(* floating point product never rounds onto an integer.                    *)
(***************************************************************************)
EXTENDS Integers, Sequences, FiniteSets, TLC

NumConns == 3
MinPriority == 2
MaxPriority == 4
maxConnections == 1
MaxTimers == 1
MaxCloseCalls == 1
MaxListeners == 2
ThresholdNum == 7
ThresholdDen == 10

Conns == 1 .. NumConns
Priorities == MinPriority .. MaxPriority

\* threshold is the constructor's second argument, kept as the numerator of a
\* fraction over ThresholdDen; it is set at construction and never changes
VARIABLES list, state, listeners, timers, openCalls, closeCalls, last,
          threshold

\* the two queues of the earlier manager with enqueue() and dequeue()
\* (src/unnamed/part_003); the manager with schedule() leaves them empty
VARIABLES waitingList, openList

vars ==
  <<list, state, listeners, timers, openCalls, closeCalls, last, threshold,
    waitingList, openList>>

(***************************************************************************)
(* Immutable.List helpers, as used by the manager.                         *)
(***************************************************************************)
ConnectionQueueItem(c, p) == [connection |-> c, priority |-> p]

\* listItem.equals(item): identity of the connection only
ItemEquals(a, b) == a.connection = b.connection

\* list.count(listItem => listItem.connection.state === s)
count(l, st, s) == Cardinality({i \in 1 .. Len(l) : st[l[i].connection] = s})

\* list.find / list.findIndex: first position with the state, 0 if none
find(l, st, s) ==
  LET S == {i \in 1 .. Len(l) : st[l[i].connection] = s}
  IN IF S = {} THEN 0 ELSE CHOOSE i \in S : \A j \in S : i <= j

\* list.findLast: last position with the state, 0 if none
findLast(l, st, s) ==
  LET S == {i \in 1 .. Len(l) : st[l[i].connection] = s}
  IN IF S = {} THEN 0 ELSE CHOOSE i \in S : \A j \in S : i >= j

\* list.findIndex(listItem => listItem.equals(item))
findIndex(l, item) ==
  LET S == {i \in 1 .. Len(l) : ItemEquals(l[i], item)}
  IN IF S = {} THEN 0 ELSE CHOOSE i \in S : \A j \in S : i <= j

\* list.filter(listItem => !listItem.equals(item))
filterOut(l, item) == SelectSeq(l, LAMBDA x : ~ItemEquals(x, item))

\* mutant: the sort is not stable, x goes in front of its equals
InsertBeforeEquals(l, x) ==
  LET k == Cardinality({i \in 1 .. Len(l) : l[i].priority > x.priority})
  IN SubSeq(l, 1, k) \o <<x>> \o SubSeq(l, k + 1, Len(l))

\* one step of the stable sort: x goes behind every entry of priority >= its own
InsertByPriority(l, x) ==
  LET k == Cardinality({i \in 1 .. Len(l) : l[i].priority >= x.priority})
  IN SubSeq(l, 1, k) \o <<x>> \o SubSeq(l, k + 1, Len(l))

RECURSIVE sortBy(_)
\* list.sortBy(listItem => -1 * listItem.priority): stable, priority descending
sortBy(l) ==
  IF l = <<>> THEN <<>>
  ELSE InsertByPriority(sortBy(SubSeq(l, 1, Len(l) - 1)), l[Len(l)])

\* list.update(index, updater): replaces position index, or appends when the
\* index is the first free position
listUpdate(l, index, x) ==
  IF index <= Len(l) THEN [l EXCEPT ![index] = x] ELSE Append(l, x)

(***************************************************************************)
(* The machine a handler works on: the manager's list, the connections'    *)
(* states and listener counts, the pending setTimeout tasks, and a log of  *)
(* the calls made on connections during the current handler.               *)
(***************************************************************************)
Machine ==
  [list |-> list, state |-> state, listeners |-> listeners, timers |-> timers,
   openCalls |-> openCalls, closeCalls |-> closeCalls,
   waitingList |-> waitingList, openList |-> openList,
   opened |-> <<>>, openedFrom |-> <<>>, closed |-> <<>>, handled |-> <<>>,
   threw |-> FALSE, ret |-> "none", lazy |-> FALSE, hangs |-> FALSE]

\* connection.addListener for ABORT, COMPLETE and ERROR
addListeners(m, c) == [m EXCEPT !.listeners[c] = @ + 1]

\* connection.removeListener for ABORT, COMPLETE and ERROR
removeListeners(m, c) ==
  [m EXCEPT !.listeners[c] = IF @ > 0 THEN @ - 1 ELSE 0]

\* connection.open(): INIT becomes OPEN; the call and the state it found are
\* logged.  A lazy connection (m.lazy) returns from open() still INIT and
\* becomes OPEN later
ConnOpen(m, c) ==
  [m EXCEPT !.state[c] = IF @ = "INIT" /\ ~m.lazy THEN "OPEN" ELSE @,
            !.openCalls[c] = @ + 1,
            !.opened = Append(@, c),
            !.openedFrom = Append(@, m.state[c])]

openConnection(m, c) == ConnOpen(addListeners(m, c), c)

RECURSIVE next(_)
next(m) ==
  LET openCount == count(m.list, m.state, "OPEN")
      i == find(m.list, m.state, "INIT")
  IN IF openCount >= maxConnections \/ Len(m.list) = openCount THEN m
     ELSE IF i = 0 THEN m
     ELSE LET c == m.list[i].connection
              m1 == openConnection(m, c)
          IN \* a connection still INIT is found again by every further
             \* call: the recursion has no end
             IF m1.state[c] = "INIT" THEN [m1 EXCEPT !.hangs = TRUE]
             ELSE next(m1)

\* mutant: the handler closes the connection that notified
handleConnectionCompleteCloses(m, c) ==
  next(removeListeners(
         [m EXCEPT !.handled = Append(@, c), !.closeCalls[c] = @ + 1,
                   !.closed = Append(@, c)], c))

\* mutant: the handler starts the next connection but keeps its listeners
handleConnectionCompleteKeepsListeners(m, c) ==
  next([m EXCEPT !.handled = Append(@, c)])

handleConnectionComplete(m, c) ==
  next(removeListeners([m EXCEPT !.handled = Append(@, c)], c))

RECURSIVE Dispatch(_, _, _)
\* the emitter calls every listener registered when the event is emitted
Dispatch(m, c, k) ==
  IF k = 0 THEN m ELSE Dispatch(handleConnectionComplete(m, c), c, k - 1)

\* the connection leaves OPEN and emits abort, error or complete
Emit(m, c) ==
  Dispatch([m EXCEPT !.state[c] = "CLOSED"], c, m.listeners[c])

\* connection.close()
ConnClose(m, c, sync) ==
  LET m1 == [m EXCEPT !.closeCalls[c] = @ + 1, !.closed = Append(@, c)]
  IN IF m.state[c] = "OPEN" /\ sync THEN Emit(m1, c) ELSE m1

\* setTimeout(() => item.connection.close(), 0)
Defer(m, c) == [m EXCEPT !.timers = Append(@, c)]

\* mutant: the threshold is left out of the comparison
PreemptsAnyHigher(lowPriority, priority) == lowPriority < priority

\* item.priority < priority * threshold
Preempts(lowPriority, priority) ==
  lowPriority * ThresholdDen < priority * threshold

\* mutant: an empty set of open connections is reported as "no free slot"
requestFreeSlotNoneOpen(m, priority, sync) ==
  LET j == findLast(m.list, m.state, "OPEN")
  IN IF j = 0 THEN [m |-> m, ok |-> FALSE]
     ELSE IF count(m.list, m.state, "OPEN") < maxConnections
       THEN [m |-> m, ok |-> TRUE]
     ELSE IF Preempts(m.list[j].priority, priority)
       THEN LET item == m.list[j]
                m1 == [m EXCEPT !.list = filterOut(@, item)]
            IN [m |-> ConnClose(m1, item.connection, sync), ok |-> TRUE]
     ELSE [m |-> m, ok |-> FALSE]

requestFreeSlot(m, priority, sync) ==
  LET j == findLast(m.list, m.state, "OPEN")
  IN IF j = 0 THEN [m |-> m, ok |-> TRUE]
     ELSE IF count(m.list, m.state, "OPEN") < maxConnections
       THEN [m |-> m, ok |-> TRUE]
     ELSE IF Preempts(m.list[j].priority, priority)
       THEN LET item == m.list[j]
                m1 == [m EXCEPT !.list = filterOut(@, item)]
            IN [m |-> ConnClose(m1, item.connection, sync), ok |-> TRUE]
     ELSE [m |-> m, ok |-> FALSE]

\* mutant: the entry is replaced in place and the list is not sorted again
updateInPlace(m, index, priority, sync) ==
  LET item == m.list[index]
      st == m.state[item.connection]
      w == find(m.list, m.state, "INIT")
      newItem == ConnectionQueueItem(item.connection, priority)
  IN IF item.priority = priority THEN m
     ELSE IF st = "OPEN" /\ priority < item.priority
             /\ count(m.list, m.state, "OPEN") = maxConnections
       THEN IF w = 0
              THEN [m EXCEPT !.threw = TRUE]   \* undefined.priority: TypeError
            ELSE IF m.list[w].priority * threshold > priority * ThresholdDen
              THEN [Defer(m, item.connection) EXCEPT
                      !.list = filterOut(m.list, item)]
            ELSE [m EXCEPT !.list = listUpdate(m.list, index, newItem)]
     ELSE IF st = "INIT" /\ priority > item.priority
       THEN LET r == requestFreeSlot(m, item.priority, sync)
                m1 == IF r.ok THEN openConnection(r.m, item.connection)
                      ELSE r.m
            IN [m1 EXCEPT !.list = listUpdate(m1.list, index, newItem)]
     ELSE [m EXCEPT !.list = listUpdate(m.list, index, newItem)]

\* update(index, priority); the result carries the list schedule() stores
update(m, index, priority, sync) ==
  LET item == m.list[index]
      st == m.state[item.connection]
      w == find(m.list, m.state, "INIT")
      newItem == ConnectionQueueItem(item.connection, priority)
  IN IF item.priority = priority THEN m
     ELSE IF st = "OPEN" /\ priority < item.priority
             /\ count(m.list, m.state, "OPEN") = maxConnections
       THEN IF w = 0
              THEN [m EXCEPT !.threw = TRUE]   \* undefined.priority: TypeError
            ELSE IF m.list[w].priority * threshold > priority * ThresholdDen
              THEN [Defer(m, item.connection) EXCEPT
                      !.list = filterOut(m.list, item)]
            ELSE [m EXCEPT !.list = sortBy(listUpdate(m.list, index, newItem))]
     ELSE IF st = "INIT" /\ priority > item.priority
       THEN LET r == requestFreeSlot(m, item.priority, sync)
                m1 == IF r.ok THEN openConnection(r.m, item.connection)
                      ELSE r.m
            IN [m1 EXCEPT !.list = sortBy(listUpdate(m1.list, index, newItem))]
     ELSE [m EXCEPT !.list = sortBy(listUpdate(m.list, index, newItem))]

\* mutant: the rejected connection is closed later but stored all the same
pushKeepsRejected(m, item, sync) ==
  LET st == m.state[item.connection]
      r == requestFreeSlot(m, item.priority, sync)
      m1 == IF st = "OPEN" /\ ~r.ok THEN Defer(r.m, item.connection)
            ELSE IF st = "INIT" /\ r.ok
              THEN openConnection(r.m, item.connection)
            ELSE r.m
  IN [m1 EXCEPT !.list = sortBy(Append(m1.list, item))]

\* mutant: the accepted entry is appended and the list is not sorted
pushUnsorted(m, item, sync) ==
  LET st == m.state[item.connection]
      r == requestFreeSlot(m, item.priority, sync)
  IN IF st = "OPEN" /\ ~r.ok THEN Defer(r.m, item.connection)
     ELSE LET m1 == IF st = "OPEN" THEN r.m
                    ELSE IF st = "INIT" /\ r.ok
                      THEN openConnection(r.m, item.connection)
                    ELSE IF st = "INIT" THEN r.m
                    ELSE m
          IN [m1 EXCEPT !.list = Append(m1.list, item)]

push(m, item, sync) ==
  LET st == m.state[item.connection]
      r == requestFreeSlot(m, item.priority, sync)
  IN IF st = "OPEN" /\ ~r.ok THEN Defer(r.m, item.connection)
     ELSE LET m1 == IF st = "OPEN" THEN r.m
                    ELSE IF st = "INIT" /\ r.ok
                      THEN openConnection(r.m, item.connection)
                    ELSE IF st = "INIT" THEN r.m
                    ELSE m
          IN [m1 EXCEPT !.list = sortBy(Append(m1.list, item))]

\* "return;": the caller receives undefined, unless the call threw
Return(m) == IF m.threw THEN m ELSE [m EXCEPT !.ret = "undefined"]

\* mutant: the entry at the head of the list is not recognised as queued
scheduleMissesHead(m, c, priority, sync) ==
  IF m.state[c] = "CLOSED" THEN Return(m)
  ELSE LET item == ConnectionQueueItem(c, priority)
           index == findIndex(m.list, item)
       IN IF index > 1 THEN Return(update(m, index, priority, sync))
          ELSE Return(push(m, item, sync))

\* mutant: a CLOSED connection is handled like any other
scheduleClosedToo(m, c, priority, sync) ==
  LET item == ConnectionQueueItem(c, priority)
      index == findIndex(m.list, item)
  IN IF index > 0 THEN Return(update(m, index, priority, sync))
     ELSE Return(push(m, item, sync))

schedule(m, c, priority, sync) ==
  IF m.state[c] = "CLOSED" THEN Return(m)
  ELSE LET item == ConnectionQueueItem(c, priority)
           index == findIndex(m.list, item)
       IN IF index > 0 THEN Return(update(m, index, priority, sync))
          ELSE Return(push(m, item, sync))

(***************************************************************************)
(* State machine                                                           *)
(***************************************************************************)
Pre == [list |-> list, state |-> state, listeners |-> listeners,
        timers |-> timers, waitingList |-> waitingList, openList |-> openList]

Record(op, c, p, m) ==
  [op |-> op, conn |-> c, prio |-> p, pre |-> Pre,
   opened |-> m.opened, openedFrom |-> m.openedFrom, closed |-> m.closed,
   handled |-> m.handled, threw |-> m.threw, ret |-> m.ret]

NoCalls ==
  [opened |-> <<>>, openedFrom |-> <<>>, closed |-> <<>>, handled |-> <<>>,
   threw |-> FALSE, ret |-> "none"]

Commit(m) ==
  /\ list' = m.list
  /\ state' = m.state
  /\ listeners' = m.listeners
  /\ timers' = m.timers
  /\ openCalls' = m.openCalls
  /\ closeCalls' = m.closeCalls
  /\ threshold' = threshold
  /\ waitingList' = m.waitingList
  /\ openList' = m.openList

\* new ConnectionManager(maxConnections, t / ThresholdDen)
Construct(t) ==
  /\ list = <<>>
  /\ state = [c \in Conns |-> "INIT"]
  /\ listeners = [c \in Conns |-> 0]
  /\ timers = <<>>
  /\ openCalls = [c \in Conns |-> 0]
  /\ closeCalls = [c \in Conns |-> 0]
  /\ threshold = t
  /\ waitingList = <<>>
  /\ openList = <<>>
  /\ last = Record("init", 0, 0, NoCalls)

\* the manager is built with the default threshold
Init == Construct(ThresholdNum)

\* a connection that was created but neither opened nor scheduled so far
Fresh(c) == state[c] = "INIT" /\ findIndex(list, ConnectionQueueItem(c, 0)) = 0

\* connections are interchangeable until they are first used, so the caller
\* is taken to use them in the order in which it created them
CreatedInOrder(c) == \A d \in Conns : d < c => ~Fresh(d)

\* the caller invokes manager.schedule(c, p)
Schedule(c, p, sync) ==
  /\ CreatedInOrder(c)
  /\ closeCalls[c] < MaxCloseCalls
  /\ LET m == schedule(Machine, c, p, sync)
     IN /\ Len(m.timers) <= MaxTimers
        /\ Commit(m)
        /\ last' = Record("schedule", c, p, m)

\* the caller opens a connection it has not handed to the manager yet
ExternalOpen(c) ==
  /\ CreatedInOrder(c)
  /\ Fresh(c)
  /\ state' = [state EXCEPT ![c] = "OPEN"]
  /\ last' = Record("extopen", c, 0, NoCalls)
  /\ UNCHANGED <<list, listeners, timers, openCalls, closeCalls, threshold,
                 waitingList, openList>>

\* an OPEN connection aborts, fails or completes and notifies its listeners
Complete(c) ==
  /\ state[c] = "OPEN"
  /\ LET m == Emit(Machine, c)
     IN Commit(m) /\ last' = Record("complete", c, 0, m)

\* the oldest setTimeout task runs: connection.close()
TimerFire(sync) ==
  /\ timers # <<>>
  /\ LET c == Head(timers)
         m == ConnClose([Machine EXCEPT !.timers = Tail(timers)], c, sync)
     IN Commit(m) /\ last' = Record("timer", c, 0, m)

Next ==
  \/ \E c \in Conns, p \in Priorities, sync \in BOOLEAN : Schedule(c, p, sync)
  \/ \E c \in Conns : ExternalOpen(c)
  \/ \E c \in Conns : Complete(c)
  \/ \E sync \in BOOLEAN : TimerFire(sync)

Spec == Init /\ [][Next]_vars

\* the thresholds a manager is built with: the default and 1
Thresholds == {ThresholdNum, ThresholdDen}

\* priority is any number the caller passes, negative or positive
SignedPriorities == {0 - MinPriority, MinPriority}

ConstructAny == \E t \in Thresholds : Construct(t)

NextSigned ==
  \/ \E c \in Conns, p \in SignedPriorities, sync \in BOOLEAN :
       Schedule(c, p, sync)
  \/ \E c \in Conns : ExternalOpen(c)
  \/ \E c \in Conns : Complete(c)
  \/ \E sync \in BOOLEAN : TimerFire(sync)

\* the manager with either threshold, called with priorities of either sign
ConfiguredSpec == ConstructAny /\ [][NextSigned]_vars

(***************************************************************************)
(* Properties                                                              *)
(*                                                                         *)
(* `last` describes the handler that produced the current state: which     *)
(* operation ran, on which connection, the state it started from (pre) and *)
(* the open()/close() calls and nested notifications it made.              *)
(***************************************************************************)
Tracked(l, c) == \E i \in 1 .. Len(l) : l[i].connection = c

Waiting(l, st) == {i \in 1 .. Len(l) : st[l[i].connection] = "INIT"}

Active(l, st) == {i \in 1 .. Len(l) : st[l[i].connection] = "OPEN"}

WaitingConns(l, st) == {l[i].connection : i \in Waiting(l, st)}

ActiveConns(l, st) == {l[i].connection : i \in Active(l, st)}

Elems(q) == {q[i] : i \in 1 .. Len(q)}

\* minimum priority over the active entries (only used when there is one)
LowestActivePriority(l, st) ==
  CHOOSE p \in {l[i].priority : i \in Active(l, st)} :
    \A i \in Active(l, st) : p <= l[i].priority

\* maximum priority over the waiting entries (only used when there is one)
HighestWaitingPriority(l, st) ==
  CHOOSE p \in {l[i].priority : i \in Waiting(l, st)} :
    \A i \in Waiting(l, st) : p >= l[i].priority

\* the last handler was schedule() with a connection the manager did not track
ScheduledNew(st) ==
  /\ last.op = "schedule"
  /\ last.pre.state[last.conn] = st
  /\ ~Tracked(last.pre.list, last.conn)

PreActiveCount == count(last.pre.list, last.pre.state, "OPEN")

\* C1: in every reachable state at most maxConnections queue entries refer to
\* a connection in state OPEN.
C1_CapacityInvariant == count(list, state, "OPEN") <= maxConnections

\* C2: after schedule() or a completion handler has returned, if a tracked
\* connection waits and another is active, then
\* (highest waiting priority) * threshold <= (lowest active priority).
C2_NoPrematurePreemption ==
  (/\ last.op \in {"schedule", "complete"}
   /\ Waiting(list, state) # {}
   /\ Active(list, state) # {})
  => HighestWaitingPriority(list, state) * ThresholdNum
       <= LowestActivePriority(list, state) * ThresholdDen

\* The case of C3: schedule() of a new INIT connection N while maxConnections
\* connections are active and N.priority * threshold > the lowest active priority.
C3_Case ==
  /\ ScheduledNew("INIT")
  /\ PreActiveCount = maxConnections
  /\ last.prio * ThresholdNum
       > LowestActivePriority(last.pre.list, last.pre.state) * ThresholdDen

\* the lowest-priority active connection at the start of the last handler
C3_Victim ==
  CHOOSE c \in ActiveConns(last.pre.list, last.pre.state) :
    \E i \in Active(last.pre.list, last.pre.state) :
      /\ last.pre.list[i].connection = c
      /\ \A j \in Active(last.pre.list, last.pre.state) :
           \/ last.pre.list[i].priority < last.pre.list[j].priority
           \/ (last.pre.list[i].priority = last.pre.list[j].priority /\ j <= i)

C3_AfterCall ==
  C3_Case =>
    /\ last.closed = <<C3_Victim>>
    /\ ~Tracked(list, C3_Victim)
    /\ last.opened = <<last.conn>>
    /\ Tracked(list, last.conn)
    /\ state[last.conn] = "OPEN"
    /\ \A w \in WaitingConns(last.pre.list, last.pre.state) :
         state[w] = "INIT" /\ Tracked(list, w)

C3_AfterNotification ==
  (/\ C3_Case
   /\ last'.op = "complete"
   /\ last'.conn = C3_Victim)
  => \A w \in WaitingConns(last.pre.list, last.pre.state) :
       state'[w] = "INIT" /\ Tracked(list', w)

\* C3: a new INIT connection N that may preempt the lowest-priority active
\* connection L: L receives close() and leaves the queue, N is opened and
\* active, nothing else is opened or closed, and the connections that waited
\* before the call still wait after it and after L's notification is handled.
C3_PreemptionKeepsWaiters == [](C3_AfterCall) /\ [][C3_AfterNotification]_vars

C5_Case ==
  /\ ScheduledNew("INIT")
  /\ PreActiveCount = maxConnections
  /\ last.prio * ThresholdNum
       <= LowestActivePriority(last.pre.list, last.pre.state) * ThresholdDen

\* C5: a new INIT connection that finds all slots taken and may not preempt is
\* queued as waiting without open(), and no tracked connection is closed,
\* removed or changed in state or priority.
C5_QueuedWithoutEffect ==
  C5_Case =>
    /\ Tracked(list, last.conn)
    /\ state[last.conn] = "INIT"
    /\ last.opened = <<>>
    /\ last.closed = <<>>
    /\ timers = last.pre.timers
    /\ \A c \in Conns : c # last.conn => state[c] = last.pre.state[c]
    /\ filterOut(list, ConnectionQueueItem(last.conn, 0)) = last.pre.list

\* a higher-priority newcomer that stays below the threshold has been queued
C5_Witness ==
  /\ C5_Case
  /\ last.prio > LowestActivePriority(last.pre.list, last.pre.state)
  /\ Tracked(list, last.conn)

\* The case of C6: schedule() of a new INIT connection while fewer than
\* maxConnections tracked connections are active and none is waiting.
C6_Case ==
  /\ ScheduledNew("INIT")
  /\ PreActiveCount < maxConnections
  /\ Waiting(last.pre.list, last.pre.state) = {}

\* C6: a new INIT connection that finds a free slot and no waiter is opened
\* exactly once during the call and stored as active; nothing is closed.
C6_OpenedIntoFreeSlot ==
  C6_Case =>
    /\ last.opened = <<last.conn>>
    /\ last.openedFrom = <<"INIT">>
    /\ state[last.conn] = "OPEN"
    /\ Tracked(list, last.conn)
    /\ last.closed = <<>>
    /\ timers = last.pre.timers

\* a connection was opened into a slot freed by an earlier completion
C6_Witness ==
  /\ C6_Case
  /\ last.pre.list # <<>>
  /\ state[last.conn] = "OPEN"

\* The case of C7: schedule() of an untracked connection X that is already
\* OPEN while maxConnections connections are active and
\* X.priority * threshold <= the lowest active priority.
C7_Case ==
  /\ ScheduledNew("OPEN")
  /\ PreActiveCount = maxConnections
  /\ last.prio * ThresholdNum
       <= LowestActivePriority(last.pre.list, last.pre.state) * ThresholdDen

C7_Rejected ==
  C7_Case =>
    /\ ~Tracked(list, last.conn)
    /\ list = last.pre.list
    /\ \A c \in Conns : Tracked(list, c) => state[c] = last.pre.state[c]

\* the deferred task ran and the manager called close() on c
C7_CloseReceived(c) ==
  last.op = "timer" /\ last.conn = c /\ c \in Elems(last.closed)

\* the rejecting call leaves a close task for the connection
C7_CloseQueued == C7_Case => last.conn \in Elems(timers)

\* a close task leaves the task queue only by running
C7_LeavesByClose ==
  \A c \in Conns :
    (c \in Elems(timers) /\ c \notin Elems(timers')) => C7_CloseReceived(c)'

\* C7: an out-of-band OPEN connection that finds all slots taken and may not
\* preempt is not inserted, the call leaves the queue and the tracked
\* connections as they were, and the manager eventually calls close() on it:
\* the call queues a close task for it, a task leaves the queue only by
\* calling close(), and no task stays queued for ever.
C7_RejectedAndClosed ==
  /\ [](C7_Rejected)
  /\ [](C7_CloseQueued)
  /\ [][C7_LeavesByClose]_vars
  /\ \A c \in Conns : []<>(c \notin Elems(timers))

\* the out-of-band connection was rejected and its close() is pending
C7_Witness ==
  /\ C7_Case
  /\ ~Tracked(list, last.conn)
  /\ timers = Append(last.pre.timers, last.conn)
  /\ state[last.conn] = "OPEN"

\* C8: the manager calls open() only on INIT connections and at most once per
\* connection; an OPEN untracked connection that finds a free slot is
\* admitted as active without an open() call.
C8_OpenOnlyInitOnce ==
  /\ \A i \in 1 .. Len(last.openedFrom) : last.openedFrom[i] = "INIT"
  /\ \A c \in Conns : openCalls[c] <= 1
  /\ (ScheduledNew("OPEN") /\ PreActiveCount < maxConnections)
       => /\ last.opened = <<>>
          /\ Tracked(list, last.conn)
          /\ state[last.conn] = "OPEN"

\* C9: once the completion handler of a tracked connection has returned, the
\* queue has no entry for it: no entry refers to a CLOSED connection whose
\* notification was handled.
C9_NoClosedEntryAfterHandler ==
  (last.op = "complete" /\ last.conn \in Elems(last.handled))
    => ~Tracked(list, last.conn)

\* C10: when an active tracked connection completes while a connection is
\* waiting, the highest-priority waiting connection has been opened by the
\* time the completion is processed, whoever opened the completed connection.
C10_CompletionOpensWaiter ==
  (/\ last.op = "complete"
   /\ last.conn \in ActiveConns(last.pre.list, last.pre.state)
   /\ Waiting(last.pre.list, last.pre.state) # {})
  => \E i \in Waiting(last.pre.list, last.pre.state) :
       /\ last.pre.list[i].priority
            = HighestWaitingPriority(last.pre.list, last.pre.state)
       /\ last.pre.list[i].connection \in Elems(last.opened)
       /\ state[last.pre.list[i].connection] # "INIT"

\* deferred close tasks are run eventually, as setTimeout(..., 0) guarantees
LiveSpec == Spec /\ WF_vars(\E sync \in BOOLEAN : TimerFire(sync))

\* every connection that is OPEN completes and notifies eventually, and the
\* deferred close tasks run.  Complete(c) is enabled exactly while c is OPEN
\* and c never returns to OPEN, so weak fairness of Complete(c) is the
\* statement that c does not stay OPEN for ever.
DrainSpec ==
  /\ Spec
  /\ WF_vars(\E sync \in BOOLEAN : TimerFire(sync))
  /\ \A c \in Conns : []<>(state[c] # "OPEN")

\* C11: once no further schedule() call is made, and every active connection
\* completes and notifies, the set of waiting connections becomes empty.
C11_WaitersDrain ==
  <>[](last.op # "schedule") => <>[](Waiting(list, state) = {})

\* C12: listeners[c] is the number of addListeners calls the manager made on c
\* minus the number of removeListeners calls (the handler, the only caller of
\* removeListeners, runs once per registration).  Once a connection is CLOSED
\* and its notification was handled the two numbers are equal.
C12_ListenersPaired ==
  \A c \in Conns : state[c] = "CLOSED" => listeners[c] = 0

\* a tracked connection on which the handlers were registered twice has
\* closed, and both registrations were removed by its handlers
C12_Witness ==
  /\ last.conn \in Conns
  /\ last.pre.listeners[last.conn] = 2
  /\ Tracked(last.pre.list, last.conn)
  /\ state[last.conn] = "CLOSED"
  /\ last.handled # <<>>
  /\ listeners[last.conn] = 0

\* C13: when schedule() returns, the connection it accepted into the queue
\* (waiting, opened, or admitted already OPEN) has the manager's abort,
\* complete and error listeners registered, and registered only once, also
\* when schedule() is called again for it.
C13_ListenersRegisteredOnce ==
  (/\ last.op = "schedule"
   /\ last.pre.state[last.conn] # "CLOSED"
   /\ Tracked(list, last.conn))
  => listeners[last.conn] = 1

\* the last handler was schedule() with a connection in state CLOSED
C14_Case == last.op = "schedule" /\ last.pre.state[last.conn] = "CLOSED"

\* C14: schedule() with a CLOSED connection does not throw, leaves the queue
\* unchanged and calls none of open(), close(), addListener() and
\* removeListener() on any connection.
C14_ClosedIgnored ==
  C14_Case =>
    /\ ~last.threw
    /\ list = last.pre.list
    /\ last.opened = <<>>
    /\ last.closed = <<>>
    /\ last.handled = <<>>
    /\ timers = last.pre.timers
    /\ listeners = last.pre.listeners
    /\ state = last.pre.state

\* schedule() was called with a new priority for a CLOSED connection whose
\* entry is still queued, while another connection waits
C14_Witness ==
  /\ C14_Case
  /\ \E i \in 1 .. Len(list) :
       list[i].connection = last.conn /\ list[i].priority # last.prio
  /\ Waiting(list, state) # {}

\* C15: schedule() never throws, whatever the queue holds and whatever the
\* state (INIT or OPEN) and the priority of the connection are.
C15_ScheduleNeverThrows == last.op = "schedule" => ~last.threw

\* what the last schedule() call did with its connection
C16_Outcome ==
  IF last.pre.state[last.conn] = "CLOSED" THEN "not accepted"
  ELSE IF ScheduledNew("OPEN") /\ ~Tracked(list, last.conn) THEN "rejected"
  ELSE "accepted"

\* the last handler was a schedule() call that returned
C16_Returned == last.op = "schedule" /\ ~last.threw

\* C16: the value schedule() returns tells its outcomes apart: two calls, one
\* after the other, with different outcomes (not accepted for a CLOSED
\* connection, rejected for an OPEN connection that is force-closed, accepted
\* otherwise) return different values.
C16_ResultDistinguishes ==
  [][(C16_Returned /\ C16_Returned' /\ C16_Outcome # C16_Outcome')
       => last.ret # last'.ret]_vars

\* C17: with threshold = 1 no schedule() call closes or evicts an active
\* connection, and open() is called only when fewer than maxConnections
\* connections are active.
C17_NoEvictionAtThresholdOne ==
  (threshold = ThresholdDen /\ last.op = "schedule") =>
    /\ \A c \in ActiveConns(last.pre.list, last.pre.state) :
         c \notin Elems(last.closed) /\ Tracked(list, c)
    /\ last.opened # <<>> => PreActiveCount < maxConnections

\* C18: whatever the threshold in (0,1] and the priority p, schedule() with
\* priority p neither closes nor evicts an active connection whose priority
\* is p as well.
C18_NoEvictionAmongEquals ==
  last.op = "schedule" =>
    \A i \in Active(last.pre.list, last.pre.state) :
      last.pre.list[i].priority = last.prio =>
        /\ last.pre.list[i].connection \notin Elems(last.closed)
        /\ Tracked(list, last.pre.list[i].connection)

\* the caller submits every connection with one and the same priority
ScheduleEqual(c, p, sync) ==
  /\ IF list = <<>> THEN TRUE ELSE p = list[1].priority
  /\ Schedule(c, p, sync)

NextEqual ==
  \/ \E c \in Conns, p \in Priorities, sync \in BOOLEAN :
       ScheduleEqual(c, p, sync)
  \/ \E c \in Conns : Complete(c)

\* INIT connections of equal priority are submitted and complete, under
\* either threshold
EqualSpec == ConstructAny /\ [][NextEqual]_vars

C20_FillPassFixedPoint ==
  (\/ last.op = "schedule"
   \/ last.op = "complete" /\ last.handled # <<>>)
  => next(Machine) = Machine

\* the last schedule() call evicted x: its entry left the queue and close()
\* was issued or deferred
C21_EvictedByLast(x) ==
  /\ last.op = "schedule"
  /\ Tracked(last.pre.list, x)
  /\ ~Tracked(list, x)
  /\ x \in Elems(last.closed) \/ x \in Elems(timers)

\* C21: a connection that was evicted never appears in the queue again; in
\* particular the step that follows its eviction does not put it back,
\* whether that step is a schedule() call or the deferred close.
C21_EvictionIsTerminal ==
  [][\A x \in Conns : C21_EvictedByLast(x) => ~Tracked(list', x)]_vars

(***************************************************************************)
(* The manager with enqueue() and dequeue() (src/unnamed/part_003).  It    *)
(* keeps the waiting and the open connections in two ConnectionQueue       *)
(* objects; every call site but one stores the queue that enqueue, dequeue *)
(* and shift return, so these return a new queue and leave the old one.    *)
(***************************************************************************)
\* ConnectionQueue.enqueue(item): priority descending, first in first out
QueueEnqueue(q, item) == InsertByPriority(q, item)

\* ConnectionQueue.dequeue(item): the queue without the item's connection
QueueDequeue(q, item) == filterOut(q, item)

InQueue(q, c) == \E i \in 1 .. Len(q) : q[i].connection = c

RECURSIVE nextQueue(_)
nextQueue(m) ==
  IF Len(m.openList) >= maxConnections \/ Len(m.waitingList) = 0 THEN m
  ELSE LET item == m.waitingList[1]
           c == item.connection
           m1 == IF m.state[c] = "INIT" THEN ConnOpen(m, c) ELSE m
           m2 == IF m1.state[c] = "OPEN"
                   THEN [m1 EXCEPT !.openList = QueueEnqueue(@, item)]
                 ELSE m1
       IN nextQueue([m2 EXCEPT !.waitingList = Tail(@)])

\* the result of context.openList.dequeue(item.connection) is not stored
handleConnectionCompleteQueue(m, c) ==
  nextQueue(removeListeners([m EXCEPT !.handled = Append(@, c)], c))

RECURSIVE DispatchQueue(_, _, _)
DispatchQueue(m, c, k) ==
  IF k = 0 THEN m
  ELSE DispatchQueue(handleConnectionCompleteQueue(m, c), c, k - 1)

EmitQueue(m, c) ==
  DispatchQueue([m EXCEPT !.state[c] = "CLOSED"], c, m.listeners[c])

ConnCloseQueue(m, c, sync) ==
  LET m1 == [m EXCEPT !.closeCalls[c] = @ + 1, !.closed = Append(@, c)]
  IN IF m.state[c] = "OPEN" /\ sync THEN EmitQueue(m1, c) ELSE m1

\* dequeue(connection); this.removeListener is not a function of the context
\* (it has removeListeners), so the INIT branch ends in a TypeError
dequeue(m, c, sync) ==
  IF m.state[c] = "CLOSED" THEN [m EXCEPT !.ret = "false"]
  ELSE IF m.state[c] = "INIT"
    THEN [m EXCEPT !.waitingList =
                     QueueDequeue(@, ConnectionQueueItem(c, 0)),
                   !.threw = TRUE]
  ELSE [ConnCloseQueue(m, c, sync) EXCEPT !.ret = "undefined"]

\* requestFreeSlot of this manager: the loop calls dequeue() on the last open
\* entry, which closes the connection but never changes openList, so the
\* loop does not end once it is entered (hangs)
requestFreeSlotQueue(m, priority) ==
  LET n == Len(m.openList)
  IN IF n > 0 /\ n >= maxConnections - 1
          /\ Preempts(m.openList[n].priority, priority)
       THEN [hangs |-> TRUE, ok |-> FALSE]
     ELSE [hangs |-> FALSE, ok |-> n <= maxConnections - 1]

\* enqueue(connection, priority), for a call that returns
enqueue(m, c, priority, sync) ==
  IF m.state[c] = "CLOSED" THEN [m EXCEPT !.ret = "false"]
  ELSE LET item == ConnectionQueueItem(c, priority)
           r == requestFreeSlotQueue(m, priority)
           m1 == IF r.ok /\ m.state[c] = "INIT" THEN ConnOpen(m, c) ELSE m
       IN IF ~r.ok /\ m.state[c] = "OPEN"
            THEN [ConnCloseQueue(m, c, sync) EXCEPT !.ret = "false"]
          ELSE LET m2 == addListeners(m1, c)
                   m3 == IF m2.state[c] = "INIT"
                           THEN [m2 EXCEPT
                                   !.waitingList = QueueEnqueue(@, item)]
                         ELSE m2
                   m4 == IF m3.state[c] = "OPEN"
                           THEN [m3 EXCEPT !.openList = QueueEnqueue(@, item)]
                         ELSE m3
               IN [m4 EXCEPT !.ret = "true"]

\* a connection neither opened nor handed to the manager so far
FreshQueue(c) ==
  /\ state[c] = "INIT"
  /\ ~InQueue(waitingList, c)
  /\ listeners[c] = 0

CreatedInOrderQueue(c) == \A d \in Conns : d < c => ~FreshQueue(d)

\* the caller invokes manager.enqueue(c, p) for a connection the manager does
\* not hold; a call whose requestFreeSlot loop does not end has no successor
Enqueue(c, p, sync) ==
  /\ CreatedInOrderQueue(c)
  /\ ~InQueue(waitingList, c) /\ ~InQueue(openList, c)
  /\ closeCalls[c] < MaxCloseCalls
  /\ listeners[c] < MaxListeners
  /\ ~requestFreeSlotQueue(Machine, p).hangs
  /\ LET m == enqueue(Machine, c, p, sync)
     IN Commit(m) /\ last' = Record("enqueue", c, p, m)

\* the caller invokes manager.dequeue(c)
Dequeue(c, sync) ==
  /\ ~FreshQueue(c)
  /\ closeCalls[c] < MaxCloseCalls
  /\ LET m == dequeue(Machine, c, sync)
     IN Commit(m) /\ last' = Record("dequeue", c, 0, m)

ExternalOpenQueue(c) ==
  /\ CreatedInOrderQueue(c)
  /\ FreshQueue(c)
  /\ state' = [state EXCEPT ![c] = "OPEN"]
  /\ last' = Record("extopen", c, 0, NoCalls)
  /\ UNCHANGED <<list, listeners, timers, openCalls, closeCalls, threshold,
                 waitingList, openList>>

CompleteQueue(c) ==
  /\ state[c] = "OPEN"
  /\ LET m == EmitQueue(Machine, c)
     IN Commit(m) /\ last' = Record("complete", c, 0, m)

NextQueue ==
  \/ \E c \in Conns, p \in Priorities, sync \in BOOLEAN : Enqueue(c, p, sync)
  \/ \E c \in Conns, sync \in BOOLEAN : Dequeue(c, sync)
  \/ \E c \in Conns : ExternalOpenQueue(c)
  \/ \E c \in Conns : CompleteQueue(c)

QueueSpec == Init /\ [][NextQueue]_vars

\* the last handler was dequeue() of a waiting connection
C22_Case ==
  /\ last.op = "dequeue"
  /\ last.pre.state[last.conn] = "INIT"
  /\ InQueue(last.pre.waitingList, last.conn)

\* C22: dequeue() of a waiting connection removes its entry from the waiting
\* list, does not throw, calls neither open() nor close(), and leaves the set
\* of active connections unchanged.
C22_CancelWaiting ==
  C22_Case =>
    /\ ~InQueue(waitingList, last.conn)
    /\ ~last.threw
    /\ last.opened = <<>>
    /\ last.closed = <<>>
    /\ openList = last.pre.openList
    /\ state = last.pre.state

\* the last handler was dequeue() of an active connection
C23_Case ==
  /\ last.op = "dequeue"
  /\ last.pre.state[last.conn] = "OPEN"
  /\ InQueue(last.pre.openList, last.conn)

\* the notification of a connection that dequeue() has closed was handled
C23_CancelHandled ==
  /\ last.op \in {"dequeue", "complete"}
  /\ last.conn \in Elems(last.handled)
  /\ closeCalls[last.conn] > 0
  /\ InQueue(last.pre.openList, last.conn)

\* C23: dequeue() of an active connection calls close() on it and does not
\* itself remove the entry; once the completion notification is handled the
\* entry has left the open list and the first waiting connection, if any,
\* was opened.
C23_CancelActive ==
  /\ C23_Case =>
       /\ last.conn \in Elems(last.closed)
       /\ last.handled = <<>> => openList = last.pre.openList
  /\ C23_CancelHandled =>
       /\ ~InQueue(openList, last.conn)
       /\ last.pre.waitingList # <<>> =>
            last.pre.waitingList[1].connection \in Elems(last.opened)

(***************************************************************************)
(* The queries of the manager (src/unnamed/part_000, lines 334-348; the    *)
(* demo page computes the same four values from the list).  They read the  *)
(* list and the connections' states and change neither.                    *)
(***************************************************************************)
open(l, st) == count(l, st, "OPEN")

waiting(l, st) == count(l, st, "INIT")

lowestOpenPriority(l, st) ==
  LET j == findLast(l, st, "OPEN") IN IF j = 0 THEN 0 ELSE l[j].priority

highestWaitingPriority(l, st) ==
  LET i == find(l, st, "INIT") IN IF i = 0 THEN 0 ELSE l[i].priority

\* C24: in every reachable state the queries return the number of OPEN
\* entries, the number of INIT entries, the minimum priority over the OPEN
\* entries and the maximum priority over the INIT entries.
C24_QueriesProject ==
  /\ open(list, state) = Cardinality(Active(list, state))
  /\ waiting(list, state) = Cardinality(Waiting(list, state))
  /\ Active(list, state) # {} =>
       lowestOpenPriority(list, state) = LowestActivePriority(list, state)
  /\ Waiting(list, state) # {} =>
       highestWaitingPriority(list, state)
         = HighestWaitingPriority(list, state)

\* an entry is active and two entries of different priority wait, the one
\* submitted later having the higher priority
C24_Witness ==
  /\ Active(list, state) # {}
  /\ \E i, j \in Waiting(list, state) :
       /\ list[i].priority > list[j].priority
       /\ list[i].connection > list[j].connection

\* C25: whenever schedule() or a completion handler has returned, no tracked
\* connection is waiting while fewer than maxConnections tracked connections
\* are active.
C25_NoIdleSlotWithWaiter ==
  (\/ last.op = "schedule"
   \/ last.op \in {"complete", "timer"} /\ last.handled # <<>>)
  => ~(/\ Waiting(list, state) # {}
       /\ Cardinality(Active(list, state)) < maxConnections)

\* the priority of connection c in list l
PriorityIn(l, c) == l[CHOOSE i \in 1 .. Len(l) : l[i].connection = c].priority

\* the priority with which the k-th open() of the last step was issued: the
\* priority passed to schedule() for the scheduled connection, the priority
\* of its entry for a connection opened by next()
C26_OpenPriority(k) ==
  IF last.op = "schedule" /\ last.opened[k] = last.conn
    THEN last.prio
    ELSE PriorityIn(last.pre.list, last.opened[k])

\* the tracked connections still waiting when the k-th open() was issued
C26_WaitingAt(k) ==
  {y \in WaitingConns(last.pre.list, last.pre.state) :
     /\ y # last.opened[k]
     /\ \A j \in 1 .. k - 1 : last.opened[j] # y}

\* C26: open() is never called on a connection while another tracked
\* connection with strictly higher priority is waiting.
C26_OpensHighestWaiter ==
  \A k \in 1 .. Len(last.opened) :
    \A y \in C26_WaitingAt(k) :
      PriorityIn(last.pre.list, y) <= C26_OpenPriority(k)

\* schedule() raised the priority of a waiting tracked connection while all
\* slots were occupied
C27_Case ==
  /\ last.op = "schedule"
  /\ last.conn \in WaitingConns(last.pre.list, last.pre.state)
  /\ last.prio > PriorityIn(last.pre.list, last.conn)
  /\ PreActiveCount = maxConnections

\* C27: a waiting connection whose priority schedule() raises to p' while all
\* slots are occupied preempts the lowest-priority active connection L
\* exactly when p' * threshold > L.priority.
C27_RaiseDecidesWithNewPriority ==
  C27_Case =>
    LET L == last.pre.list[findLast(last.pre.list, last.pre.state, "OPEN")]
    IN (/\ L.connection \in Elems(last.closed)
        /\ last.conn \in Elems(last.opened))
       <=> Preempts(L.priority, last.prio)

(***************************************************************************)
(* A caller that hands every connection to the manager unopened.  With     *)
(* CreatedInOrder, a connection is then first submitted after all the      *)
(* connections of smaller number: the number is the submission order.      *)
(***************************************************************************)
NextSubmitted ==
  \/ \E c \in Conns, p \in Priorities, sync \in BOOLEAN : Schedule(c, p, sync)
  \/ \E c \in Conns : Complete(c)
  \/ \E sync \in BOOLEAN : TimerFire(sync)

SubmittedSpec == Init /\ [][NextSubmitted]_vars

\* C28: queue entries of equal priority are ordered by the time their
\* connections were first submitted, earlier first, also after priority
\* updates.
C28_EqualsInSubmissionOrder ==
  \A i, j \in 1 .. Len(list) :
    (i < j /\ list[i].priority = list[j].priority)
      => list[i].connection < list[j].connection

\* the list is sorted by priority, highest first
Sorted(l) == \A i, j \in 1 .. Len(l) : i < j => l[i].priority >= l[j].priority

\* C29: in every reachable state the queue is sorted by priority in
\* non-increasing order; the last OPEN entry, which requestFreeSlot picks, has
\* the lowest priority among the active entries, and the first INIT entry,
\* which next() picks, the highest priority among the waiting entries.
C29_QueueSorted ==
  /\ Sorted(list)
  /\ \A i \in Active(list, state) :
       list[findLast(list, state, "OPEN")].priority <= list[i].priority
  /\ \A i \in Waiting(list, state) :
       list[find(list, state, "INIT")].priority >= list[i].priority

\* three entries of three different priorities, the connection submitted
\* last in front, after a priority update
C29_Witness ==
  /\ Len(list) = 3
  /\ list[1].priority > list[2].priority
  /\ list[2].priority > list[3].priority
  /\ list[1].connection = 3
  /\ last.op = "schedule"
  /\ Tracked(last.pre.list, last.conn)

\* the connections the manager opened or holds in its list that are OPEN and
\* on which close() has not been called
C30_ActuallyOpen ==
  {c \in Conns : /\ state[c] = "OPEN"
                 /\ closeCalls[c] = 0
                 /\ openCalls[c] > 0 \/ Tracked(list, c)}

\* C30: close() is issued on an evicted connection before open() is issued
\* on the connection that takes its slot: the connections the manager opened
\* or admitted that are actually OPEN never number more than maxConnections,
\* also while deferred tasks of a schedule() call are pending.
C30_CloseBeforeOpen == Cardinality(C30_ActuallyOpen) <= maxConnections

\* C31: the manager calls close() at most once on any connection, whatever
\* the interleaving of schedule() calls, deferred close tasks and completion
\* notifications.
C31_ClosedAtMostOnce == \A c \in Conns : closeCalls[c] <= 1

\* C32: a completion handler never runs nested inside a schedule() call,
\* also when close() delivers the notification synchronously: no handler
\* has run and no waiting connection was opened by next() when schedule()
\* returns.
C32_NoHandlerInsideSchedule ==
  last.op = "schedule" =>
    /\ last.handled = <<>>
    /\ \A k \in 1 .. Len(last.opened) : last.opened[k] = last.conn

ExternalOpenTracked(c) ==
  /\ state[c] = "INIT"
  /\ Tracked(list, c)
  /\ state' = [state EXCEPT ![c] = "OPEN"]
  /\ last' = Record("extopen", c, 0, NoCalls)
  /\ UNCHANGED <<list, listeners, timers, openCalls, closeCalls, threshold,
                 waitingList, openList>>

NextOutOfBand ==
  \/ \E c \in Conns, p \in Priorities, sync \in BOOLEAN : Schedule(c, p, sync)
  \/ \E c \in Conns : ExternalOpenTracked(c)
  \/ \E c \in Conns : Complete(c)
  \/ \E sync \in BOOLEAN : TimerFire(sync)

OutOfBandSpec == Init /\ [][NextOutOfBand]_vars

\* the connections that were tracked and OPEN before the last step
C34_PreActive == ActiveConns(last.pre.list, last.pre.state)

\* those of them the caller opened: the manager never called open() on them
C34_OpenedOutOfBand == {c \in C34_PreActive : openCalls[c] = 0}

\* C34: when out-of-band opens have left more than maxConnections tracked
\* connections OPEN, the next schedule() call or completion handler closes
\* active connections and removes their entries until exactly maxConnections
\* remain active.
C34_ShrinkToCapacity ==
  (/\ \/ last.op = "schedule"
      \/ last.op = "complete" /\ last.handled # <<>>
   /\ C34_OpenedOutOfBand # {}
   /\ Cardinality(C34_PreActive \ C34_OpenedOutOfBand) <= maxConnections
   /\ PreActiveCount > maxConnections)
  => Cardinality(Active(list, state)) = maxConnections

(***************************************************************************)
(* Connections whose open() is fire-and-forget: the call returns with the  *)
(* connection still INIT, and the connection becomes OPEN later.  A call   *)
(* of the manager that does not return has no successor state.             *)
(***************************************************************************)
MaxOpenCalls == 1

\* the priorities the caller uses with these connections
LazyPriorities == {MinPriority, MaxPriority}

LazyMachine == [Machine EXCEPT !.lazy = TRUE]

ScheduleLazy(c, p, sync) ==
  /\ CreatedInOrder(c)
  /\ closeCalls[c] < MaxCloseCalls
  /\ LET m == schedule(LazyMachine, c, p, sync)
     IN /\ ~m.hangs
        /\ \A d \in Conns : m.openCalls[d] <= MaxOpenCalls
        /\ Len(m.timers) <= MaxTimers
        /\ Commit(m)
        /\ last' = Record("schedule", c, p, m)

\* the connection on which open() was called reaches OPEN
OpenCompletes(c) ==
  /\ state[c] = "INIT"
  /\ openCalls[c] > 0
  /\ state' = [state EXCEPT ![c] = "OPEN"]
  /\ last' = Record("opened", c, 0, NoCalls)
  /\ UNCHANGED <<list, listeners, timers, openCalls, closeCalls, threshold,
                 waitingList, openList>>

CompleteLazy(c) ==
  /\ state[c] = "OPEN"
  /\ LET m == Emit(LazyMachine, c)
     IN ~m.hangs /\ Commit(m) /\ last' = Record("complete", c, 0, m)

TimerFireLazy(sync) ==
  /\ timers # <<>>
  /\ LET c == Head(timers)
         m == ConnClose([LazyMachine EXCEPT !.timers = Tail(timers)], c, sync)
     IN ~m.hangs /\ Commit(m) /\ last' = Record("timer", c, 0, m)

NextLazy ==
  \/ \E c \in Conns, p \in LazyPriorities, sync \in BOOLEAN :
       ScheduleLazy(c, p, sync)
  \/ \E c \in Conns : OpenCompletes(c)
  \/ \E c \in Conns : CompleteLazy(c)
  \/ \E sync \in BOOLEAN : TimerFireLazy(sync)

LazySpec == Init /\ [][NextLazy]_vars

\* C35: schedule() and the completion handler terminate in every reachable
\* state, also when open() is fire-and-forget: no call that can be made in
\* the state runs into the endless recursion of next().
C35_CallsTerminate ==
  /\ \A c \in Conns, p \in LazyPriorities, sync \in BOOLEAN :
       state[c] # "CLOSED" => ~schedule(LazyMachine, c, p, sync).hangs
  /\ \A c \in Conns : state[c] = "OPEN" => ~Emit(LazyMachine, c).hangs
  /\ \A sync \in BOOLEAN :
       timers # <<>> => ~ConnClose(LazyMachine, Head(timers), sync).hangs

\* schedule() was given a connection the caller had opened itself and did
\* not store it
C36_Case ==
  /\ last.op = "schedule"
  /\ last.pre.state[last.conn] = "OPEN"
  /\ ~Tracked(last.pre.list, last.conn)
  /\ ~Tracked(list, last.conn)

\* C36: when schedule() rejects an out-of-band OPEN connection, close() has
\* been called on it by the time schedule() returns; it is not left OPEN
\* behind a pending task.
C36_RejectedClosedOnReturn ==
  C36_Case =>
    /\ last.conn \in Elems(last.closed)
    /\ last.conn \notin Elems(timers)

\* schedule(c, p) called once more right after schedule(c, p) returned
C37_Again(sync) == schedule(Machine, last.conn, last.prio, sync)

\* C37: calling schedule(c, p) a second time right after the first call
\* leaves the queue and every connection's state as they are and issues no
\* open(), close() or addListener() call.
C37_ScheduleIdempotent ==
  (last.op = "schedule" /\ ~last.threw) =>
    \A sync \in BOOLEAN :
      /\ C37_Again(sync).list = list
      /\ C37_Again(sync).state = state
      /\ C37_Again(sync).listeners = listeners
      /\ C37_Again(sync).opened = <<>>
      /\ C37_Again(sync).closed = <<>>

====
